---- MODULE Spec2Model ----
(***************************************************************************)
(* Hotel reservation backend: room inventory, bookings table, the booking  *)
(* controller (bookRooms / cancelBooking) and its variant, resetAllBookings *)
(* of the room controller, the availability query and the price rule of    *)
(* BookingService and the room selection of AlgorithmService.              *)
(***************************************************************************)
EXTENDS Integers, Sequences, FiniteSets, TLC

(* ---------------------------------------------------------------------- *)
(* Bounds of the model                                                    *)
(* ---------------------------------------------------------------------- *)
NumFloors == 2
RoomsPerFloor == 2
MaxBookings == 2
MaxReq == 2
Today == 1
Horizon == 2
NumProcs == 2
AlgNumFloors == 2
AlgRoomsPerFloor == 5
AlgMaxCount == 2
AlgMaxFree == 4
PriceLastDay == 24
PriceMaxNights == 3

(* ---------------------------------------------------------------------- *)
(* Program constants                                                      *)
(* ---------------------------------------------------------------------- *)
MAX_ROOMS == 5
VERTICAL_TIME == 2
MAX_STAY_NIGHTS == 30
Infinity == 1000000

Null == [none |-> TRUE]
(* a null room list; every real combination has numRooms >= 1 rooms *)
NullRooms == <<>>

(* ---------------------------------------------------------------------- *)
(* Inventory                                                              *)
(* ---------------------------------------------------------------------- *)
Floors == 1..NumFloors
Positions == 1..RoomsPerFloor
RoomNumber(f, p) == f * 100 + p
FloorOf(n) == n \div 100
PositionOf(n) == n % 100
RoomNumbers == {RoomNumber(f, p) : f \in Floors, p \in Positions}
RoomRec(n) == [number |-> n, floor |-> FloorOf(n), position |-> PositionOf(n)]

Days == (Today - 1)..(Today + Horizon)
NumRoomsInputs == (0..MaxReq) \cup {MAX_ROOMS + 1}

(* ---------------------------------------------------------------------- *)
(* Generic helpers standing for JavaScript built-ins                      *)
(* ---------------------------------------------------------------------- *)
Range(s) == {s[i] : i \in 1..Len(s)}

RECURSIVE MathMax(_)
MathMax(s) == IF Len(s) = 1 THEN s[1]
              ELSE LET m == MathMax(Tail(s)) IN IF s[1] > m THEN s[1] ELSE m

RECURSIVE MathMin(_)
MathMin(s) == IF Len(s) = 1 THEN s[1]
              ELSE LET m == MathMin(Tail(s)) IN IF s[1] < m THEN s[1] ELSE m

MapFloor(rs) == [i \in 1..Len(rs) |-> rs[i].floor]
MapPosition(rs) == [i \in 1..Len(rs) |-> rs[i].position]
MapNumber(rs) == [i \in 1..Len(rs) |-> rs[i].number]

RECURSIVE Flat(_)
Flat(ss) == IF Len(ss) = 0 THEN <<>> ELSE Head(ss) \o Flat(Tail(ss))

(* ORDER BY position ASC over the room numbers of one floor *)
RECURSIVE OrderByPosition(_)
OrderByPosition(S) ==
  IF S = {} THEN <<>>
  ELSE LET first == CHOOSE n \in S : \A m \in S : PositionOf(n) <= PositionOf(m)
       IN <<RoomRec(first)>> \o OrderByPosition(S \ {first})

(* ORDER BY floor ASC, position ASC over a set of room numbers: the rooms *)
(* of the lowest floor in position order, then those of the other floors  *)
RECURSIVE OrderByFloorPosition(_)
OrderByFloorPosition(S) ==
  IF S = {} THEN <<>>
  ELSE LET lowest == CHOOSE n \in S : \A m \in S : FloorOf(n) <= FloorOf(m)
           onFloor == {n \in S : FloorOf(n) = FloorOf(lowest)}
       IN OrderByPosition(onFloor) \o OrderByFloorPosition(S \ onFloor)

(* ---------------------------------------------------------------------- *)
(* State                                                                  *)
(* ---------------------------------------------------------------------- *)
VARIABLES
  isAvailable,   \* rooms table: room number -> is_available flag
  bookings,      \* bookings table, in creation order; bookingId = index
  response,      \* HTTP status of the last completed request (0: none yet)
  pc,            \* concurrent requests: position of each request handler
  req,           \* concurrent requests: the request body of each handler
  local,         \* concurrent requests: rows read by Room.findAll
  algRooms,      \* AlgorithmService input: free room numbers
  algCount,      \* AlgorithmService input: numRooms
  algResult,     \* AlgorithmService.findOptimalRooms result (Null before)
  algTime,       \* AlgorithmService.calculateTravelTime result (-1 before)
  today,         \* the server's current date (new Date() at midnight)
  priceReq,      \* BookingService.calculateTotalPrice input (Null: none)
  priceResult    \* BookingService.calculateTotalPrice result in cents (-1 before)

vars == <<isAvailable, bookings, response, pc, req, local,
          algRooms, algCount, algResult, algTime, today, priceReq, priceResult>>
dbVars == <<isAvailable, bookings, response>>
procVars == <<pc, req, local>>
algVars == <<algRooms, algCount, algResult, algTime>>
envVars == <<today, priceReq, priceResult>>

(* ---------------------------------------------------------------------- *)
(* AlgorithmService (services/algorithmService.js)                        *)
(* ---------------------------------------------------------------------- *)
NoResult == [rooms |-> <<>>, travelTime |-> 0, floors |-> <<>>, strategy |-> "null"]
NotRun == [rooms |-> <<>>, travelTime |-> 0, floors |-> <<>>, strategy |-> "not_run"]

calculateHorizontalTime(rooms) ==
  IF Len(rooms) <= 1 THEN 0
  ELSE MathMax(MapPosition(rooms)) - MathMin(MapPosition(rooms))

calculateVerticalTime(rooms) ==
  IF Len(rooms) <= 1 THEN 0
  ELSE (MathMax(MapFloor(rooms)) - MathMin(MapFloor(rooms))) * VERTICAL_TIME

(* faulty variant of calculateTravelTime: the vertical cost is taken from  *)
(* the span of floors of the rooms (the legacy formula of                 *)
(* calculateVerticalTime), not from the distance to floor 1               *)
calculateTravelTime_FloorSpan(rooms) ==
  IF Len(rooms) = 0 THEN 0
  ELSE calculateVerticalTime(rooms) + calculateHorizontalTime(rooms)

calculateTravelTime(rooms) ==
  IF Len(rooms) = 0 THEN 0
  ELSE LET maxFloor == MathMax(MapFloor(rooms))
           maxPos == MathMax(MapPosition(rooms))
           minPos == MathMin(MapPosition(rooms))
       IN (maxFloor - 1) * VERTICAL_TIME + (maxPos - minPos)

(* the for loop of findBestOnSingleFloor; i is the 0-based loop index *)
RECURSIVE BestOnFloorLoop(_, _, _, _, _)
BestOnFloorLoop(availableRooms, numRooms, i, bestCombination, bestTime) ==
  IF i > Len(availableRooms) - numRooms THEN bestCombination
  ELSE LET combination == SubSeq(availableRooms, i + 1, i + numRooms)
           time == calculateTravelTime(combination)
       IN IF time < bestTime
          THEN BestOnFloorLoop(availableRooms, numRooms, i + 1, combination, time)
          ELSE BestOnFloorLoop(availableRooms, numRooms, i + 1, bestCombination, bestTime)

(* faulty variant of findBestOnSingleFloor: "<=" for "<" in the loop, so  *)
(* the last of several equally good windows wins                          *)
RECURSIVE BestOnFloorLoop_LastTie(_, _, _, _, _)
BestOnFloorLoop_LastTie(availableRooms, numRooms, i, bestCombination, bestTime) ==
  IF i > Len(availableRooms) - numRooms THEN bestCombination
  ELSE LET combination == SubSeq(availableRooms, i + 1, i + numRooms)
           time == calculateTravelTime(combination)
       IN IF time <= bestTime
          THEN BestOnFloorLoop_LastTie(availableRooms, numRooms, i + 1, combination, time)
          ELSE BestOnFloorLoop_LastTie(availableRooms, numRooms, i + 1, bestCombination, bestTime)

findBestOnSingleFloor_LastTie(availableRooms, numRooms) ==
  BestOnFloorLoop_LastTie(availableRooms, numRooms, 0, NullRooms, Infinity)

findBestOnSingleFloor(availableRooms, numRooms) ==
  BestOnFloorLoop(availableRooms, numRooms, 0, NullRooms, Infinity)

(* the recursive closure generateCombinations of findOptimalRooms; best   *)
(* carries the captured variables bestTime / bestCombination; start, i, j *)
(* are 1-based indexes into availableRoomsByFloor. bestTime only ever     *)
(* decreases, so the comparison in GenerateLoop always holds; it makes    *)
(* the result of one iteration a value before the next iteration starts.  *)
RECURSIVE generateCombinations(_, _, _, _, _)
RECURSIVE GenerateLoop(_, _, _, _, _, _)
generateCombinations(byFloor, numRooms, start, current, best) ==
  IF Len(current) = numRooms
  THEN LET time == calculateTravelTime(current)
       IN IF time < best.bestTime
          THEN [bestTime |-> time, bestCombination |-> current]
          ELSE best
  ELSE GenerateLoop(byFloor, numRooms, start, 1, current, best)

GenerateLoop(byFloor, numRooms, i, j, current, best) ==
  IF i > Len(byFloor) THEN best
  ELSE IF j > Len(byFloor[i]) THEN GenerateLoop(byFloor, numRooms, i + 1, 1, current, best)
  ELSE LET after == generateCombinations(byFloor, numRooms, i,
                                         Append(current, byFloor[i][j]), best)
       IN IF after.bestTime <= best.bestTime
          THEN GenerateLoop(byFloor, numRooms, i, j + 1, current, after)
          ELSE best

(* Priority 1 loop: first floor list (in list order) with enough rooms *)
RECURSIVE SameFloorLoop(_, _, _)
SameFloorLoop(byFloor, numRooms, k) ==
  IF k > Len(byFloor) THEN NullRooms
  ELSE IF Len(byFloor[k]) >= numRooms
          /\ findBestOnSingleFloor(byFloor[k], numRooms) # NullRooms
       THEN findBestOnSingleFloor(byFloor[k], numRooms)
       ELSE SameFloorLoop(byFloor, numRooms, k + 1)

(* sorted list of the distinct floors of a room list *)
RECURSIVE SortedSet(_)
SortedSet(S) ==
  IF S = {} THEN <<>>
  ELSE LET m == CHOOSE x \in S : \A y \in S : x <= y
       IN <<m>> \o SortedSet(S \ {m})

(* faulty variant of findOptimalRooms: Priority 1 slides its window over  *)
(* the list of all free rooms instead of over one floor at a time         *)
findOptimalRooms_FlatWindow(availableRoomsByFloor, numRooms) ==
  LET combination == SameFloorLoop(<<Flat(availableRoomsByFloor)>>, numRooms, 1)
  IN IF combination # NullRooms
     THEN [rooms |-> combination,
           travelTime |-> calculateTravelTime(combination),
           floors |-> <<combination[1].floor>>,
           strategy |-> "same_floor"]
     ELSE NoResult

(* faulty variant of findOptimalRooms: Priority 2 is missing, so a        *)
(* request that no single floor can serve gets no result                  *)
findOptimalRooms_SameFloorOnly(availableRoomsByFloor, numRooms) ==
  LET combination == SameFloorLoop(availableRoomsByFloor, numRooms, 1)
  IN IF combination # NullRooms
     THEN [rooms |-> combination,
           travelTime |-> calculateTravelTime(combination),
           floors |-> <<combination[1].floor>>,
           strategy |-> "same_floor"]
     ELSE NoResult

findOptimalRooms(availableRoomsByFloor, numRooms) ==
  LET combination == SameFloorLoop(availableRoomsByFloor, numRooms, 1)
      allAvailableRooms == Flat(availableRoomsByFloor)
      best == generateCombinations(availableRoomsByFloor, numRooms, 1, <<>>,
                                   [bestTime |-> Infinity, bestCombination |-> NullRooms])
  IN IF combination # NullRooms
     THEN [rooms |-> combination,
           travelTime |-> calculateTravelTime(combination),
           floors |-> <<combination[1].floor>>,
           strategy |-> "same_floor"]
     ELSE IF Len(allAvailableRooms) < numRooms THEN NoResult
     ELSE IF best.bestCombination # NullRooms
          THEN [rooms |-> best.bestCombination,
                travelTime |-> best.bestTime,
                floors |-> SortedSet(Range(MapFloor(best.bestCombination))),
                strategy |-> "across_floors"]
          ELSE NoResult

(* the grouping loop of bookRooms: one list per floor that has free rooms *)
RECURSIVE GroupByFloor(_, _, _)
GroupByFloor(allAvailableRooms, f, lastFloor) ==
  IF f > lastFloor THEN <<>>
  ELSE LET floorRooms == SelectSeq(allAvailableRooms, LAMBDA r : r.floor = f)
       IN (IF Len(floorRooms) > 0 THEN <<floorRooms>> ELSE <<>>)
          \o GroupByFloor(allAvailableRooms, f + 1, lastFloor)

(* ---------------------------------------------------------------------- *)
(* Specification SpecAlg: the pure functions of AlgorithmService applied  *)
(* to every free-room input of a bounded grid                             *)
(* ---------------------------------------------------------------------- *)
AlgRoomNumbers == {RoomNumber(f, p) : f \in 1..AlgNumFloors, p \in 1..AlgRoomsPerFloor}
AlgByFloor == GroupByFloor(OrderByFloorPosition(algRooms), 1, AlgNumFloors)
AlgFlat == Flat(AlgByFloor)

InitDb ==
  /\ isAvailable = [n \in RoomNumbers |-> TRUE]
  /\ bookings = <<>>
  /\ response = 0

InitEnv ==
  /\ today = Today
  /\ priceReq = Null
  /\ priceResult = -1

InitProcIdle ==
  /\ pc = [p \in 1..NumProcs |-> "idle"]
  /\ req = [p \in 1..NumProcs |-> Null]
  /\ local = [p \in 1..NumProcs |-> <<>>]

InitAlg ==
  /\ InitDb
  /\ InitEnv
  /\ InitProcIdle
  /\ algRooms \in {S \in SUBSET AlgRoomNumbers : Cardinality(S) <= AlgMaxFree}
  /\ algCount \in 1..AlgMaxCount
  /\ algResult = NotRun
  /\ algTime = -1

AlgFindOptimalRooms ==
  /\ algResult = NotRun
  /\ algResult' = findOptimalRooms(AlgByFloor, algCount)
  /\ UNCHANGED <<dbVars, procVars, envVars, algRooms, algCount, algTime>>

AlgCalculateTravelTime ==
  /\ algTime = -1
  /\ algTime' = calculateTravelTime(AlgFlat)
  /\ UNCHANGED <<dbVars, procVars, envVars, algRooms, algCount, algResult>>

NextAlg == AlgFindOptimalRooms \/ AlgCalculateTravelTime
SpecAlg == InitAlg /\ [][NextAlg]_vars

(* ---------------------------------------------------------------------- *)
(* Properties of AlgorithmService (checked under SpecAlg)                 *)
(* ---------------------------------------------------------------------- *)
AlgRan == algResult # NotRun
AlgHasResult == algResult.strategy \in {"same_floor", "across_floors"}
AlgResultNumbers == MapNumber(algResult.rooms)
AlgFreeOnFloor(f) == {n \in algRooms : FloorOf(n) = f}
AlgEligibleFloors == {f \in 1..AlgNumFloors : Cardinality(AlgFreeOnFloor(f)) >= algCount}
SetMax(S) == CHOOSE x \in S : \A y \in S : y <= x
SetMin(S) == CHOOSE x \in S : \A y \in S : x <= y
(* the travel cost of section 4.1, over a non-empty set of room numbers *)
SetCost(S) ==
  (SetMax({FloorOf(n) : n \in S}) - 1) * 2
    + (SetMax({PositionOf(n) : n \in S}) - SetMin({PositionOf(n) : n \in S}))

(* C5: every result of findOptimalRooms has exactly count rooms, all of   *)
(* them members of the free-room input, and no room number twice.         *)
C5_ResultIsCountDistinctFreeRooms ==
  AlgHasResult =>
    /\ Len(algResult.rooms) = algCount
    /\ Range(AlgResultNumbers) \subseteq algRooms
    /\ Cardinality(Range(AlgResultNumbers)) = Len(algResult.rooms)

(* C6: if some floor has count or more free rooms, findOptimalRooms       *)
(* returns rooms and all of them are on one floor.                        *)
C6_SameFloorPriority ==
  (AlgRan /\ AlgEligibleFloors # {}) =>
    /\ AlgHasResult
    /\ \A i, j \in 1..Len(algResult.rooms) :
         algResult.rooms[i].floor = algResult.rooms[j].floor

(* C6 witness: the selection ran on an input where the lowest floor with  *)
(* free rooms has too few of them and a higher floor has enough.          *)
C6_Witness ==
  /\ AlgRan
  /\ AlgEligibleFloors # {}
  /\ \E f \in 1..AlgNumFloors :
       /\ AlgFreeOnFloor(f) # {}
       /\ f \notin AlgEligibleFloors
       /\ f < SetMin(AlgEligibleFloors)
  /\ algCount >= 2

C8_CrossFloorMinimal ==
  (AlgRan /\ AlgEligibleFloors = {} /\ Cardinality(algRooms) >= algCount) =>
    /\ AlgHasResult
    /\ Len(algResult.rooms) = algCount
    /\ Cardinality(Range(AlgResultNumbers)) = algCount
    /\ Range(AlgResultNumbers) \subseteq algRooms
    /\ \A S \in SUBSET algRooms :
         Cardinality(S) = algCount => SetCost(Range(AlgResultNumbers)) <= SetCost(S)
    /\ algResult.travelTime = SetCost(Range(AlgResultNumbers))

C10_SingleRoomCostZero ==
  (algTime # -1 /\ Cardinality(algRooms) = 1) => algTime = 0

(* ---------------------------------------------------------------------- *)
(* BookingService.calculateTotalPrice (services/bookingService.js)        *)
(* Amounts are integers: prices in cents, intermediate products in        *)
(* hundredths of a cent. Dates are day numbers; for the Date methods day  *)
(* 0 is Friday 17 December 2021, so day 8 is Saturday 25 December and day *)
(* 15 is 1 January (valid up to day 45, 31 January).                      *)
(* ---------------------------------------------------------------------- *)
getDay(d) == (5 + d) % 7
getMonth(d) == IF d <= 14 THEN 11 ELSE 0
getDate(d) == IF d <= 14 THEN 17 + d ELSE d - 14

(* basePrice of the seeded rooms, in cents *)
basePrice(n) ==
  IF FloorOf(n) = 10 THEN 20000
  ELSE IF FloorOf(n) >= 8 THEN 15000 ELSE 10000

(* x *= 1.2 / x *= 1.3 on an amount in hundredths of a cent; exact for    *)
(* prices in whole cents                                                  *)
TimesTenths(x, tenths) == (x * tenths) \div 10

(* parseFloat(x.toFixed(2)): hundredths of a cent to the nearest cent *)
toFixed2(x) == (x + 50) \div 100

(* Math.ceil((checkOut - checkIn) / msPerDay) for dates at midnight *)
Nights(checkIn, checkOut) == checkOut - checkIn

(* faulty variant of PricePerNight: weekend factor only, as the inline    *)
(* price computation of bookRooms                                         *)
PricePerNight_WeekendOnly(n, checkIn) ==
  LET p0 == basePrice(n) * 100
  IN IF getDay(checkIn) = 5 \/ getDay(checkIn) = 6 THEN TimesTenths(p0, 12) ELSE p0

(* the body of rooms.forEach for one room *)
PricePerNight(n, checkIn) ==
  LET p0 == basePrice(n) * 100
      p1 == IF getDay(checkIn) = 5 \/ getDay(checkIn) = 6
            THEN TimesTenths(p0, 12) ELSE p0
      p2 == IF getMonth(checkIn) = 11 /\ getDate(checkIn) >= 20
            THEN TimesTenths(p1, 13) ELSE p1
      p3 == IF getMonth(checkIn) = 0 /\ getDate(checkIn) <= 5
            THEN TimesTenths(p2, 13) ELSE p2
  IN p3

RECURSIVE SumPrice(_, _, _, _)
SumPrice(rooms, checkIn, nights, totalPrice) ==
  IF rooms = {} THEN totalPrice
  ELSE LET n == CHOOSE m \in rooms : TRUE
       IN SumPrice(rooms \ {n}, checkIn, nights,
                   totalPrice + PricePerNight(n, checkIn) * nights)

(* roomIds is the set of rooms Room.findAll({where: {roomId: roomIds}})   *)
(* returns; the result is in cents                                        *)
calculateTotalPrice(roomIds, checkInDate, checkOutDate) ==
  toFixed2(SumPrice(roomIds, checkInDate, Nights(checkInDate, checkOutDate), 0))

(* ---------------------------------------------------------------------- *)
(* Booking controller (controllers/bookingController.js)                  *)
(* ---------------------------------------------------------------------- *)
(* Room.count() *)
RoomCount == Cardinality(RoomNumbers)

(* Room.count() on the rooms table avail; the rows of the table are the   *)
(* room numbers of DOMAIN avail                                           *)
RoomCountOf(avail) == Cardinality(DOMAIN avail)

(* faulty variant of AllAvailableRooms: Room.findAll without the          *)
(* isAvailable filter                                                     *)
AllAvailableRooms_IgnoreFlag(avail) == OrderByFloorPosition(RoomNumbers)

(* Room.findAll({where: {isAvailable: true}, order: floor, position}) *)
AllAvailableRooms(avail) == OrderByFloorPosition({n \in DOMAIN avail : avail[n]})

(* faulty variant of ValidationStatus: no test of checkOut <= checkIn *)
ValidationStatus_NoDateOrder(numRooms, checkIn, checkOut) ==
  IF numRooms = 0 \/ numRooms < 1 \/ numRooms > MAX_ROOMS THEN 400
  ELSE IF checkIn < today THEN 400
  ELSE 0

(* first failing validation of bookRooms, 0 when the request is valid *)
ValidationStatus(numRooms, checkIn, checkOut) ==
  IF numRooms = 0 \/ numRooms < 1 \/ numRooms > MAX_ROOMS THEN 400
  ELSE IF checkIn < today THEN 400
  ELSE IF checkOut <= checkIn THEN 400
  ELSE 0

(* the travel time bookRooms computes for the rooms it slices *)
ControllerTravelTime(selectedRooms) ==
  IF Len(selectedRooms) > 1
  THEN IF \A i \in 1..Len(selectedRooms) : selectedRooms[i].floor = selectedRooms[1].floor
       THEN (MathMax(MapPosition(selectedRooms)) - MathMin(MapPosition(selectedRooms))) * 2
       ELSE Len(selectedRooms) * 3 + 5
  ELSE 0

(* the body of selectedRooms.forEach in bookRooms for one room: the       *)
(* weekend factor is the only pricing rule applied                        *)
ControllerPricePerNight(n, checkIn) ==
  LET p0 == basePrice(n) * 100
  IN IF getDay(checkIn) = 5 \/ getDay(checkIn) = 6 THEN TimesTenths(p0, 12) ELSE p0

RECURSIVE ControllerSumPrice(_, _, _, _)
ControllerSumPrice(selectedRooms, k, checkIn, nights) ==
  IF k > Len(selectedRooms) THEN 0
  ELSE ControllerPricePerNight(selectedRooms[k].number, checkIn) * nights
         + ControllerSumPrice(selectedRooms, k + 1, checkIn, nights)

(* the totalPrice bookRooms computes, in cents *)
ControllerTotalPrice(selectedRooms, checkIn, checkOut) ==
  toFixed2(ControllerSumPrice(selectedRooms, 1, checkIn, Nights(checkIn, checkOut)))

(* the row Booking.create inserts. userId is not stored: the only use of  *)
(* it, the owner test of cancelBooking, is the input isOwner there.       *)
NewBooking(selectedRooms, numRooms, checkIn, checkOut) ==
  [rooms |-> MapNumber(selectedRooms),
   totalRooms |-> numRooms,
   travelTime |-> ControllerTravelTime(selectedRooms),
   totalPrice |-> ControllerTotalPrice(selectedRooms, checkIn, checkOut),
   checkInDate |-> checkIn,
   checkOutDate |-> checkOut,
   status |-> "confirmed"]

(* faulty variant of RoomUpdate: the where clause names the first room    *)
(* number only                                                            *)
RoomUpdate_FirstRoom(avail, roomNumbers, value) ==
  [n \in DOMAIN avail |->
     IF Len(roomNumbers) > 0 /\ n = roomNumbers[1] THEN value ELSE avail[n]]

(* Room.update({isAvailable: value}, {where: {roomNumber: roomNumbers}}) *)
RoomUpdate(avail, roomNumbers, value) ==
  [n \in DOMAIN avail |-> IF n \in Range(roomNumbers) THEN value ELSE avail[n]]

(* bookRooms run to completion on the tables (avail, bks) *)
BookRoomsResult(avail, bks, numRooms, checkIn, checkOut) ==
  LET allAvailableRooms == AllAvailableRooms(avail)
      selectedRooms == SubSeq(allAvailableRooms, 1, numRooms)
      unchanged(status) == [isAvailable |-> avail, bookings |-> bks, response |-> status]
  IN IF ValidationStatus(numRooms, checkIn, checkOut) # 0 THEN unchanged(400)
     ELSE IF RoomCountOf(avail) = 0 THEN unchanged(400)
     ELSE IF Len(allAvailableRooms) < numRooms THEN unchanged(400)
     ELSE [isAvailable |-> RoomUpdate(avail, MapNumber(selectedRooms), FALSE),
           bookings |-> Append(bks, NewBooking(selectedRooms, numRooms,
                                               checkIn, checkOut)),
           response |-> 201]

BookRooms(numRooms, checkIn, checkOut) ==
  /\ Len(bookings) < MaxBookings
  /\ LET r == BookRoomsResult(isAvailable, bookings, numRooms, checkIn, checkOut)
     IN /\ isAvailable' = r.isAvailable
        /\ bookings' = r.bookings
        /\ response' = r.response
  /\ UNCHANGED <<procVars, algVars, envVars>>

(* Booking.findOne({bookingId: id, userId}) finds the row when it exists   *)
(* and the caller owns it (isOwner)                                        *)
CancelBooking(isOwner, id) ==
  /\ IF id > Len(bookings) \/ ~isOwner
     THEN /\ response' = 404
          /\ UNCHANGED <<isAvailable, bookings>>
     ELSE IF bookings[id].status = "cancelled"
     THEN /\ response' = 400
          /\ UNCHANGED <<isAvailable, bookings>>
     ELSE /\ bookings' = [bookings EXCEPT ![id].status = "cancelled"]
          /\ isAvailable' = RoomUpdate(isAvailable, bookings[id].rooms, TRUE)
          /\ response' = 200
  /\ UNCHANGED <<procVars, algVars, envVars>>

(* faulty variant of CancelConfirmed: the bookings are deleted            *)
(* (Booking.destroy) instead of cancelled                                  *)
CancelConfirmed_Destroy(bks) == <<>>

(* Booking.update({status: 'cancelled'}, {where: {status: 'confirmed'}}) *)
CancelConfirmed(bks) ==
  [i \in 1..Len(bks) |-> IF bks[i].status = "confirmed"
                         THEN [bks[i] EXCEPT !.status = "cancelled"]
                         ELSE bks[i]]

(* resetAllBookings of controllers/roomController.js. The rooms table of  *)
(* the model always holds the seeded inventory, so the room count is the  *)
(* expected one and the re-seeding branch, which also leaves every room   *)
(* available, is not taken.                                               *)
ResetAllBookings ==
  /\ bookings' = CancelConfirmed(bookings)
  /\ isAvailable' = [n \in RoomNumbers |-> TRUE]
  /\ response' = 200
  /\ UNCHANGED <<procVars, algVars, envVars>>

(* ---------------------------------------------------------------------- *)
(* BookingService.findOptimalRooms (services/bookingService.js)           *)
(* ---------------------------------------------------------------------- *)
(* the where clause of the conflictingBookings query *)
IsConflictingBooking(b, checkInDate, checkOutDate) ==
  /\ b.checkInDate <= checkOutDate
  /\ b.checkOutDate >= checkInDate
  /\ b.status = "confirmed"

BookedRoomNumbers(bks, checkInDate, checkOutDate) ==
  UNION {Range(bks[i].rooms) :
           i \in {k \in 1..Len(bks) : IsConflictingBooking(bks[k], checkInDate, checkOutDate)}}

TrulyAvailableRooms(avail, bks, checkInDate, checkOutDate) ==
  SelectSeq(AllAvailableRooms(avail),
            LAMBDA room : room.number \notin BookedRoomNumbers(bks, checkInDate, checkOutDate))

ServiceFindOptimalRooms(avail, bks, numRooms, checkInDate, checkOutDate) ==
  findOptimalRooms(GroupByFloor(TrulyAvailableRooms(avail, bks, checkInDate, checkOutDate),
                                1, NumFloors),
                   numRooms)

(* ---------------------------------------------------------------------- *)
(* Specification SpecPrice: calculateTotalPrice applied to every room set *)
(* of a sample of the seeded rooms and every stay of a bounded calendar   *)
(* ---------------------------------------------------------------------- *)
PriceRoomNumbers == {101, 102, 801, 1001}
PriceDates == 0..PriceLastDay

InitPrice ==
  /\ InitDb
  /\ today = Today
  /\ InitProcIdle
  /\ algRooms = {}
  /\ algCount = 1
  /\ algResult = NotRun
  /\ algTime = -1
  /\ priceReq \in [rooms : (SUBSET PriceRoomNumbers) \ {{}},
                   checkInDate : PriceDates,
                   nights : 1..PriceMaxNights]
  /\ priceResult = -1

PriceCalculate ==
  /\ priceResult = -1
  /\ priceResult' = calculateTotalPrice(priceReq.rooms, priceReq.checkInDate,
                                        priceReq.checkInDate + priceReq.nights)
  /\ UNCHANGED <<dbVars, procVars, algVars, today, priceReq>>

NextPrice == PriceCalculate

SpecPrice == InitPrice /\ [][NextPrice]_vars

(* the claimed price, in hundredths of a cent: check-in on a Friday or    *)
(* Saturday (days 0 and 1 of each week of the calendar) and check-in from *)
(* 20 December (day 3) to 5 January (day 19)                              *)
WeekendFactor(d) == IF d % 7 \in {0, 1} THEN 120 ELSE 100
PeakFactor(d) == IF d \in 3..19 THEN 130 ELSE 100
RECURSIVE ClaimedSum(_, _, _)
ClaimedSum(rooms, d, nights) ==
  IF rooms = {} THEN 0
  ELSE LET n == CHOOSE m \in rooms : TRUE
       IN (basePrice(n) * WeekendFactor(d) * PeakFactor(d) * nights) \div 100
            + ClaimedSum(rooms \ {n}, d, nights)

(* C11: the total price of a room set for a stay of nights >= 1 is the    *)
(* sum over the rooms of baseRate * w * p * nights rounded to cents, with *)
(* w = 1.20 for a check-in on Friday or Saturday and p = 1.30 for a       *)
(* check-in from 20 December to 5 January, both taken from the check-in   *)
(* date only and multiplied when both apply; 2 nights from Saturday 25    *)
(* December in a room of base rate 100.00 cost 312.00.                    *)
C11_TotalPriceFormula ==
  /\ priceResult # -1 =>
       /\ priceResult * 100 - 50 <= ClaimedSum(priceReq.rooms, priceReq.checkInDate,
                                               priceReq.nights)
       /\ ClaimedSum(priceReq.rooms, priceReq.checkInDate, priceReq.nights)
            < priceResult * 100 + 50
  /\ calculateTotalPrice({101}, 8, 10) = 31200

(* C11 witness: a price was computed for several rooms of different base  *)
(* rates, several nights and a check-in that is both a Saturday and in    *)
(* the peak season.                                                       *)
C11_Witness ==
  /\ priceResult # -1
  /\ priceReq.checkInDate = 8
  /\ priceReq.nights >= 2
  /\ Cardinality({basePrice(n) : n \in priceReq.rooms}) >= 2
  /\ priceResult = ((Cardinality(priceReq.rooms \cap {101, 102}) * 10000
                     + Cardinality(priceReq.rooms \cap {801}) * 15000
                     + Cardinality(priceReq.rooms \cap {1001}) * 20000)
                    * 156 * priceReq.nights) \div 100

(* ---------------------------------------------------------------------- *)
(* Specification Spec: requests handled one at a time                     *)
(* ---------------------------------------------------------------------- *)
InitAlgIdle ==
  /\ algRooms = {}
  /\ algCount = 1
  /\ algResult = NotRun
  /\ algTime = -1

Init == InitDb /\ InitEnv /\ InitProcIdle /\ InitAlgIdle

Next ==
  \/ \E n \in NumRoomsInputs, ci \in Days, co \in Days : BookRooms(n, ci, co)
  \/ \E isOwner \in BOOLEAN, id \in 1..MaxBookings : CancelBooking(isOwner, id)
  \/ ResetAllBookings

Spec == Init /\ [][Next]_vars

(* ---------------------------------------------------------------------- *)
(* Specification SpecTime: the requests of Spec, requests for a stay of   *)
(* more than MAX_STAY_NIGHTS nights, and days passing between requests    *)
(* ---------------------------------------------------------------------- *)
DayPasses ==
  /\ today < Today + Horizon
  /\ today' = today + 1
  /\ UNCHANGED <<dbVars, procVars, algVars, priceReq, priceResult>>

BookRoomsLongStay(numRooms) == BookRooms(numRooms, today, today + MAX_STAY_NIGHTS + 1)

NextTime ==
  \/ Next
  \/ \E n \in 1..MaxReq : BookRoomsLongStay(n)
  \/ DayPasses

SpecTime == Init /\ [][NextTime]_vars

(* ---------------------------------------------------------------------- *)
(* Properties of the booking tables (checked under Spec)                  *)
(* ---------------------------------------------------------------------- *)
IsActive(b) == b.status \in {"pending", "confirmed"}
(* half-open ranges [a, b) and [c, d) overlap *)
Overlap(a, b, c, d) == a < d /\ c < b
DatesOverlap(b1, b2) ==
  Overlap(b1.checkInDate, b1.checkOutDate, b2.checkInDate, b2.checkOutDate)
RequestRanges == {<<ci, co>> \in Days \X Days : ci < co}
(* some active booking holds room n for dates overlapping [ci, co) *)
HeldInRange(n, ci, co) ==
  \E i \in 1..Len(bookings) :
    /\ IsActive(bookings[i])
    /\ n \in Range(bookings[i].rooms)
    /\ Overlap(bookings[i].checkInDate, bookings[i].checkOutDate, ci, co)
BookRoomsFreeSet == Range(MapNumber(AllAvailableRooms(isAvailable)))
ServiceFreeSet(ci, co) == Range(MapNumber(TrulyAvailableRooms(isAvailable, bookings, ci, co)))

C3_FreeIffNotHeldInRange ==
  \A n \in RoomNumbers : \A r \in RequestRanges :
    /\ (n \in BookRoomsFreeSet) <=> ~HeldInRange(n, r[1], r[2])
    /\ (n \in ServiceFreeSet(r[1], r[2])) <=> ~HeldInRange(n, r[1], r[2])

(* C4: date ranges are half-open: an active booking [a, b) and a request  *)
(* [c, d) conflict exactly when a < d and c < b, and a room whose only    *)
(* active bookings touch the request at an end point (check-in equal to   *)
(* their check-out, or check-out equal to their check-in) is in the free  *)
(* set of BookingService.findOptimalRooms.                                *)
C4_HalfOpenRanges ==
  \A r \in RequestRanges :
    /\ \A i \in 1..Len(bookings) :
         IsActive(bookings[i]) =>
           (IsConflictingBooking(bookings[i], r[1], r[2])
              <=> Overlap(bookings[i].checkInDate, bookings[i].checkOutDate, r[1], r[2]))
    /\ \A n \in RoomNumbers :
         (/\ \E i \in 1..Len(bookings) :
                /\ IsActive(bookings[i]) /\ n \in Range(bookings[i].rooms)
                /\ (bookings[i].checkOutDate = r[1] \/ bookings[i].checkInDate = r[2])
          /\ ~HeldInRange(n, r[1], r[2]))
           => n \in ServiceFreeSet(r[1], r[2])

(* C12: the room set a successful bookRooms persists is the set that      *)
(* findOptimalRooms (same floor first, then the cheapest cross-floor       *)
(* combination) returns for the rooms free when the request is served; in *)
(* particular, when some floor has numRooms or more free rooms, all rooms *)
(* of the new booking are on one floor.                                   *)
C12_PersistsSelectorResult ==
  [][(response' = 201 /\ Len(bookings') = Len(bookings) + 1) =>
       LET b == bookings'[Len(bookings')]
           free == AllAvailableRooms(isAvailable)
           selected == findOptimalRooms(GroupByFloor(free, 1, NumFloors), b.totalRooms)
       IN /\ Range(b.rooms) = Range(MapNumber(selected.rooms))
          /\ (\E f \in Floors :
                Cardinality({n \in RoomNumbers : isAvailable[n] /\ FloorOf(n) = f})
                  >= b.totalRooms)
               => \A n, m \in Range(b.rooms) : FloorOf(n) = FloorOf(m)]_vars

(* C13: in every reachable state, a bookRooms request with a room count   *)
(* outside 1..5, a check-in before today or a check-out not after the     *)
(* check-in is answered 400 and changes neither the bookings nor any      *)
(* room's availability.                                                   *)
C13_InvalidRequestRejected ==
  \A n \in NumRoomsInputs, ci \in Days, co \in Days :
    (n \notin 1..5 \/ ci < today \/ co <= ci)
      => BookRoomsResult(isAvailable, bookings, n, ci, co)
           = [isAvailable |-> isAvailable, bookings |-> bookings, response |-> 400]

(* C13 witness: a request was answered 400 while there was no booking to  *)
(* cancel and every room was free, so it was rejected by the validation.  *)
C13_Witness ==
  /\ response = 400
  /\ bookings = <<>>
  /\ \A n \in RoomNumbers : isAvailable[n]

(* C14: every booking in the table has a stay of at most 30 nights (a    *)
(* bookRooms request for a longer stay is rejected and creates nothing).  *)
C14_StayAtMost30Nights ==
  \A i \in 1..Len(bookings) :
    bookings[i].checkOutDate - bookings[i].checkInDate <= MAX_STAY_NIGHTS

(* C15: cancelBooking on a booking whose check-in date is before today is *)
(* rejected: it does not answer 200, the bookings keep their status and   *)
(* no room's availability changes.                                        *)
C15_NoCancelAfterCheckIn ==
  [][\A isOwner \in BOOLEAN, id \in 1..Len(bookings) :
       (bookings[id].checkInDate < today /\ CancelBooking(isOwner, id))
         => /\ response' # 200
            /\ bookings' = bookings
            /\ isAvailable' = isAvailable]_vars

(* C18: in every step of bookRooms, cancelBooking and resetAllBookings no *)
(* booking is removed from the table, an existing booking is changed at   *)
(* most by its status becoming cancelled, and a cancelled booking stays   *)
(* cancelled.                                                             *)
C18_BookingsOnlyEverCancelled ==
  [][/\ Len(bookings') >= Len(bookings)
     /\ \A i \in 1..Len(bookings) :
          /\ \/ bookings'[i] = bookings[i]
             \/ bookings'[i] = [bookings[i] EXCEPT !.status = "cancelled"]
          /\ bookings[i].status = "cancelled" => bookings'[i].status = "cancelled"]_vars

(* C18 witness: the table holds a booking that was cancelled, in front of *)
(* a booking created after the cancellation, and the last request was a   *)
(* successful cancelBooking or resetAllBookings.                          *)
C18_Witness ==
  /\ Len(bookings) >= 2
  /\ bookings[1].status = "cancelled"
  /\ Range(bookings[1].rooms) \cap Range(bookings[2].rooms) # {}
  /\ response = 200

(* ---------------------------------------------------------------------- *)
(* The controller variant src/unnamed/part_017: bookRooms selects with    *)
(* algorithmService.findOptimalRooms, cancelBooking finds the booking by  *)
(* id alone and has no test of its status. Specification SpecVariant runs *)
(* its requests one at a time.                                            *)
(* ---------------------------------------------------------------------- *)
BookRoomsOptimalResult(avail, bks, numRooms, checkIn, checkOut) ==
  LET allAvailableRooms == AllAvailableRooms(avail)
      roomsByFloor == GroupByFloor(allAvailableRooms, 1, NumFloors)
      optimalResult == findOptimalRooms(roomsByFloor, numRooms)
      roomNumbers == MapNumber(optimalResult.rooms)
      unchanged(status) == [isAvailable |-> avail, bookings |-> bks, response |-> status]
  IN IF ValidationStatus(numRooms, checkIn, checkOut) # 0 THEN unchanged(400)
     ELSE IF Len(allAvailableRooms) < numRooms THEN unchanged(400)
     ELSE IF optimalResult = NoResult THEN unchanged(400)
     ELSE [isAvailable |-> RoomUpdate(avail, roomNumbers, FALSE),
           bookings |-> Append(bks, [rooms |-> roomNumbers,
                                     totalRooms |-> numRooms,
                                     travelTime |-> optimalResult.travelTime,
                                     totalPrice |-> ControllerTotalPrice(
                                                      optimalResult.rooms, checkIn, checkOut),
                                     checkInDate |-> checkIn,
                                     checkOutDate |-> checkOut,
                                     status |-> "confirmed"]),
           response |-> 201]

BookRoomsOptimal(numRooms, checkIn, checkOut) ==
  /\ Len(bookings) < MaxBookings
  /\ LET r == BookRoomsOptimalResult(isAvailable, bookings, numRooms, checkIn, checkOut)
     IN /\ isAvailable' = r.isAvailable
        /\ bookings' = r.bookings
        /\ response' = r.response
  /\ UNCHANGED <<procVars, algVars, envVars>>

CancelBookingUnchecked(id) ==
  /\ IF id > Len(bookings)
     THEN /\ response' = 404
          /\ UNCHANGED <<isAvailable, bookings>>
     ELSE /\ bookings' = [bookings EXCEPT ![id].status = "cancelled"]
          /\ isAvailable' = RoomUpdate(isAvailable, bookings[id].rooms, TRUE)
          /\ response' = 200
  /\ UNCHANGED <<procVars, algVars, envVars>>

(* requests for more rooms than one floor has are part of the inputs *)
VariantNumRoomsInputs == NumRoomsInputs \cup {RoomsPerFloor + 1}

NextVariant ==
  \/ \E n \in VariantNumRoomsInputs, ci \in Days, co \in Days : BookRoomsOptimal(n, ci, co)
  \/ \E id \in 1..MaxBookings : CancelBookingUnchecked(id)

SpecVariant == Init /\ [][NextVariant]_vars

(* C17: every booking in the table has checkOut > checkIn, a room count   *)
(* between 1 and 5, and as many distinct room numbers as its room count.  *)
C17_BookingRecordInvariant ==
  \A i \in 1..Len(bookings) :
    /\ bookings[i].checkOutDate > bookings[i].checkInDate
    /\ bookings[i].totalRooms \in 1..5
    /\ Cardinality(Range(bookings[i].rooms)) = bookings[i].totalRooms

(* ---------------------------------------------------------------------- *)
(* Specification SpecFault: the requests of Spec, and bookRooms requests  *)
(* in which one database operation rejects (connection lost, timeout).    *)
(* The handler has one try block around all its awaits and its catch      *)
(* answers 500 without undoing anything.                                  *)
(* ---------------------------------------------------------------------- *)
DbOperations == {"Room.count", "Room.findAll", "Booking.create", "Room.update"}

(* bookRooms run on the tables (avail, bks) when the operation failAt     *)
(* throws if the handler gets to it                                       *)
BookRoomsFailingResult(avail, bks, failAt, numRooms, checkIn, checkOut) ==
  LET allAvailableRooms == AllAvailableRooms(avail)
      selectedRooms == SubSeq(allAvailableRooms, 1, numRooms)
      unchanged(status) == [isAvailable |-> avail, bookings |-> bks, response |-> status]
  IN IF ValidationStatus(numRooms, checkIn, checkOut) # 0 THEN unchanged(400)
     ELSE IF failAt = "Room.count" THEN unchanged(500)
     ELSE IF RoomCount = 0 THEN unchanged(400)
     ELSE IF failAt = "Room.findAll" THEN unchanged(500)
     ELSE IF Len(allAvailableRooms) < numRooms THEN unchanged(400)
     ELSE IF failAt = "Booking.create" THEN unchanged(500)
     ELSE [isAvailable |-> avail,
           bookings |-> Append(bks, NewBooking(selectedRooms, numRooms,
                                               checkIn, checkOut)),
           response |-> 500]

BookRoomsFailing(failAt, numRooms, checkIn, checkOut) ==
  /\ Len(bookings) < MaxBookings
  /\ LET r == BookRoomsFailingResult(isAvailable, bookings, failAt,
                                     numRooms, checkIn, checkOut)
     IN /\ isAvailable' = r.isAvailable
        /\ bookings' = r.bookings
        /\ response' = r.response
  /\ UNCHANGED <<procVars, algVars, envVars>>

NextFault ==
  \/ Next
  \/ \E failAt \in DbOperations, n \in NumRoomsInputs, ci \in Days, co \in Days :
       BookRoomsFailing(failAt, n, ci, co)

SpecFault == Init /\ [][NextFault]_vars

(* C20: bookRooms commits all or nothing: a request that ends with an     *)
(* error (400 or 500), whatever the step that failed, leaves the bookings *)
(* and the availability of every room as they were, and in no state is a  *)
(* room of a confirmed booking still offered as free.                     *)
C20_AllOrNothing ==
  [][/\ \A n \in NumRoomsInputs, ci \in Days, co \in Days :
          /\ (BookRooms(n, ci, co) /\ response' # 201)
               => (bookings' = bookings /\ isAvailable' = isAvailable)
          /\ \A failAt \in DbOperations :
               BookRoomsFailing(failAt, n, ci, co)
                 => (bookings' = bookings /\ isAvailable' = isAvailable)
     /\ \A i \in 1..Len(bookings') :
          bookings'[i].status = "confirmed"
            => \A n \in Range(bookings'[i].rooms) : ~isAvailable'[n]]_vars

(* ---------------------------------------------------------------------- *)
(* Specification SpecConc: bookRooms requests running concurrently; each  *)
(* await of the handler (Room.count, Room.findAll, Booking.create,        *)
(* Room.update) is one step, and steps of different requests interleave.  *)
(* The handler opens no transaction and takes no lock.                    *)
(* ---------------------------------------------------------------------- *)
Procs == 1..NumProcs
(* selectedRooms and status are the handler's; bookingsRead is a history  *)
(* value, the number of bookings in the table when Room.findAll ran       *)
NoLocal == [selectedRooms |-> <<>>, status |-> 0, bookingsRead |-> 0]

(* the tables after completed bookRooms calls that leave one room free *)
RECURSIVE OneRoomFree(_, _)
OneRoomFree(avail, bks) ==
  LET free == Cardinality({n \in RoomNumbers : avail[n]})
      take == IF free - 1 > MAX_ROOMS THEN MAX_ROOMS ELSE free - 1
      r == BookRoomsResult(avail, bks, take, Today, Today + Horizon)
  IN IF free <= 1 THEN [isAvailable |-> avail, bookings |-> bks]
     ELSE OneRoomFree(r.isAvailable, r.bookings)

InitConc ==
  /\ InitEnv
  /\ isAvailable = OneRoomFree([n \in RoomNumbers |-> TRUE], <<>>).isAvailable
  /\ bookings = OneRoomFree([n \in RoomNumbers |-> TRUE], <<>>).bookings
  /\ response = 0
  /\ pc = [p \in Procs |-> "idle"]
  /\ req = [p \in Procs |-> Null]
  /\ local = [p \in Procs |-> NoLocal]
  /\ InitAlgIdle

(* request received: the synchronous validation up to the first await *)
ReceiveBookRooms(p, numRooms, checkIn, checkOut) ==
  /\ pc[p] = "idle"
  /\ req' = [req EXCEPT ![p] = [numRooms |-> numRooms,
                                checkInDate |-> checkIn, checkOutDate |-> checkOut]]
  /\ IF ValidationStatus(numRooms, checkIn, checkOut) # 0
     THEN /\ pc' = [pc EXCEPT ![p] = "done"]
          /\ local' = [local EXCEPT ![p].status = 400]
     ELSE /\ pc' = [pc EXCEPT ![p] = "count"]
          /\ UNCHANGED local
  /\ UNCHANGED <<dbVars, algVars, envVars>>

(* await Room.count() *)
RoomCountStep(p) ==
  /\ pc[p] = "count"
  /\ IF RoomCount = 0
     THEN /\ pc' = [pc EXCEPT ![p] = "done"]
          /\ local' = [local EXCEPT ![p].status = 400]
     ELSE /\ pc' = [pc EXCEPT ![p] = "findAll"]
          /\ UNCHANGED local
  /\ UNCHANGED <<dbVars, req, algVars, envVars>>

(* await Room.findAll(...), then the selection up to Booking.create *)
RoomFindAllStep(p) ==
  /\ pc[p] = "findAll"
  /\ LET allAvailableRooms == AllAvailableRooms(isAvailable)
     IN IF Len(allAvailableRooms) < req[p].numRooms
        THEN /\ pc' = [pc EXCEPT ![p] = "done"]
             /\ local' = [local EXCEPT ![p].status = 400]
        ELSE /\ pc' = [pc EXCEPT ![p] = "create"]
             /\ local' = [local EXCEPT ![p].selectedRooms =
                                          SubSeq(allAvailableRooms, 1, req[p].numRooms),
                                        ![p].bookingsRead = Len(bookings)]
  /\ UNCHANGED <<dbVars, req, algVars, envVars>>

(* await Booking.create(...) *)
BookingCreateStep(p) ==
  /\ pc[p] = "create"
  /\ bookings' = Append(bookings,
                        NewBooking(local[p].selectedRooms, req[p].numRooms,
                                   req[p].checkInDate, req[p].checkOutDate))
  /\ pc' = [pc EXCEPT ![p] = "update"]
  /\ UNCHANGED <<isAvailable, response, req, local, algVars, envVars>>

(* await Room.update(...), then the 201 response *)
RoomUpdateStep(p) ==
  /\ pc[p] = "update"
  /\ isAvailable' = RoomUpdate(isAvailable, MapNumber(local[p].selectedRooms), FALSE)
  /\ pc' = [pc EXCEPT ![p] = "done"]
  /\ local' = [local EXCEPT ![p].status = 201]
  /\ UNCHANGED <<bookings, response, req, algVars, envVars>>

NextConc ==
  \/ \E p \in Procs, n \in NumRoomsInputs, ci \in Days, co \in Days :
       ReceiveBookRooms(p, n, ci, co)
  \/ \E p \in Procs : RoomCountStep(p)
  \/ \E p \in Procs : RoomFindAllStep(p)
  \/ \E p \in Procs : BookingCreateStep(p)
  \/ \E p \in Procs : RoomUpdateStep(p)

SpecConc == InitConc /\ [][NextConc]_vars

(* C19: a bookRooms request does not persist its booking when, since its *)
(* availability read, another request has committed an active booking of  *)
(* overlapping dates on one of the rooms it chose (it re-validates at     *)
(* commit, restarts, and ends with Conflict after 3 attempts).            *)
C19_NoCommitAfterConflict ==
  [][\A p \in Procs :
       BookingCreateStep(p) =>
         ~\E i \in (local[p].bookingsRead + 1)..Len(bookings) :
            /\ IsActive(bookings[i])
            /\ Range(bookings[i].rooms) \cap Range(MapNumber(local[p].selectedRooms)) # {}
            /\ Overlap(bookings[i].checkInDate, bookings[i].checkOutDate,
                       req[p].checkInDate, req[p].checkOutDate)]_vars

(* ---------------------------------------------------------------------- *)
(* Specification SpecConcCancel: the concurrent bookRooms requests of     *)
(* SpecConc and cancelBooking requests, each cancelBooking running        *)
(* between two awaits of the other requests                               *)
(* ---------------------------------------------------------------------- *)
(* every booking holds a room, and each concurrent request adds one *)
ConcBookingIds == 1..(RoomCount + NumProcs)

NextConcCancel ==
  \/ NextConc
  \/ \E isOwner \in BOOLEAN, id \in ConcBookingIds : CancelBooking(isOwner, id)

SpecConcCancel == InitConc /\ [][NextConcCancel]_vars

(* C16: when cancelBooking succeeds on a confirmed booking B, every room  *)
(* of B is free afterwards, every other booking is unchanged, and every   *)
(* room that another active booking holds and that was not free is still  *)
(* not free.                                                              *)
C16_CancelFrame ==
  [][\A id \in 1..Len(bookings) :
       (bookings[id].status = "confirmed" /\ CancelBooking(TRUE, id))
         => /\ \A n \in Range(bookings[id].rooms) : isAvailable'[n]
            /\ \A j \in 1..Len(bookings) : j # id => bookings'[j] = bookings[j]
            /\ \A j \in 1..Len(bookings) :
                 (j # id /\ IsActive(bookings[j]))
                   => \A n \in Range(bookings[j].rooms) :
                        ~isAvailable[n] => ~isAvailable'[n]]_vars

(* C2: when the concurrent bookRooms requests are all valid and ask for   *)
(* one room with pairwise overlapping dates while exactly one room is     *)
(* free, exactly one request succeeds (201), every other one fails with   *)
(* insufficient rooms or conflict, and no room is in two confirmed        *)
(* bookings of overlapping dates.                                         *)
C2_ExactlyOneSucceeds ==
  (/\ \A p \in Procs : pc[p] = "done" /\ req[p].numRooms = 1
   /\ \A p \in Procs :
        ValidationStatus(req[p].numRooms, req[p].checkInDate, req[p].checkOutDate) = 0
   /\ \A p, q \in Procs : Overlap(req[p].checkInDate, req[p].checkOutDate,
                                  req[q].checkInDate, req[q].checkOutDate))
    => /\ Cardinality({p \in Procs : local[p].status = 201}) = 1
       /\ \A p \in Procs : local[p].status \in {201, 400, 409}
       /\ \A i, j \in 1..Len(bookings) :
            (i < j /\ bookings[i].status = "confirmed" /\ bookings[j].status = "confirmed"
               /\ DatesOverlap(bookings[i], bookings[j]))
              => Range(bookings[i].rooms) \cap Range(bookings[j].rooms) = {}

(* ---------------------------------------------------------------------- *)
(* Specification SpecCancelRace: cancelBooking requests running           *)
(* concurrently with each other and with bookRooms. Each await of         *)
(* cancelBooking (Booking.findOne, booking.save, Room.update) is one      *)
(* step; the handler opens no transaction and takes no lock. bookRooms    *)
(* runs between two awaits of the cancellations.                          *)
(* ---------------------------------------------------------------------- *)
InitCancelRace ==
  /\ InitDb
  /\ InitEnv
  /\ pc = [p \in Procs |-> "idle"]
  /\ req = [p \in Procs |-> Null]
  /\ local = [p \in Procs |-> NoLocal]
  /\ InitAlgIdle

(* await Booking.findOne({bookingId, userId}), then the tests on the row *)
(* that was read; local[p].booking is the instance the handler holds     *)
CancelFindOneStep(p, isOwner, id) ==
  /\ pc[p] = "idle"
  /\ req' = [req EXCEPT ![p] = [bookingId |-> id]]
  /\ IF id > Len(bookings) \/ ~isOwner
     THEN /\ pc' = [pc EXCEPT ![p] = "done"]
          /\ local' = [local EXCEPT ![p].status = 404]
     ELSE IF bookings[id].status = "cancelled"
     THEN /\ pc' = [pc EXCEPT ![p] = "done"]
          /\ local' = [local EXCEPT ![p].status = 400]
     ELSE /\ pc' = [pc EXCEPT ![p] = "save"]
          /\ local' = [local EXCEPT ![p] = [booking |-> bookings[id], status |-> 0]]
  /\ UNCHANGED <<dbVars, algVars, envVars>>

(* booking.status = 'cancelled'; await booking.save() *)
CancelSaveStep(p) ==
  /\ pc[p] = "save"
  /\ bookings' = [bookings EXCEPT ![req[p].bookingId].status = "cancelled"]
  /\ pc' = [pc EXCEPT ![p] = "roomUpdate"]
  /\ UNCHANGED <<isAvailable, response, req, local, algVars, envVars>>

(* await Room.update({isAvailable: true}, {where: {roomNumber:           *)
(* booking.rooms}}), then the 200 response                                *)
CancelRoomUpdateStep(p) ==
  /\ pc[p] = "roomUpdate"
  /\ isAvailable' = RoomUpdate(isAvailable, local[p].booking.rooms, TRUE)
  /\ pc' = [pc EXCEPT ![p] = "done"]
  /\ local' = [local EXCEPT ![p].status = 200]
  /\ UNCHANGED <<bookings, response, req, algVars, envVars>>

(* the handler has returned; the client sends its next request *)
CancelRequestEnds(p) ==
  /\ pc[p] = "done"
  /\ pc' = [pc EXCEPT ![p] = "idle"]
  /\ req' = [req EXCEPT ![p] = Null]
  /\ local' = [local EXCEPT ![p] = NoLocal]
  /\ UNCHANGED <<dbVars, algVars, envVars>>

NextCancelRace ==
  \/ \E n \in NumRoomsInputs, ci \in Days, co \in Days : BookRooms(n, ci, co)
  \/ \E p \in Procs, isOwner \in BOOLEAN, id \in 1..MaxBookings :
       CancelFindOneStep(p, isOwner, id)
  \/ \E p \in Procs : CancelSaveStep(p)
  \/ \E p \in Procs : CancelRoomUpdateStep(p)
  \/ \E p \in Procs : CancelRequestEnds(p)

SpecCancelRace == InitCancelRace /\ [][NextCancelRace]_vars

(* C21: under every interleaving of cancelBooking and bookRooms calls, a  *)
(* cancellation never makes a room free while a confirmed booking other   *)
(* than the one being cancelled holds that room.                          *)
C21_CancelAtomic ==
  [][\A p \in Procs :
       CancelRoomUpdateStep(p) =>
         \A n \in Range(local[p].booking.rooms) :
           ~\E j \in 1..Len(bookings) :
              /\ j # req[p].bookingId
              /\ bookings[j].status = "confirmed"
              /\ n \in Range(bookings[j].rooms)]_vars

(* ---------------------------------------------------------------------- *)
(* Specification SpecService: BookingService.findOptimalRooms and         *)
(* BookingService.calculateTotalPrice called on the tables that bookRooms *)
(* and cancelBooking leave, each of their database queries either         *)
(* answering or throwing. Both methods wrap their whole body in           *)
(* try/catch.                                                             *)
(* ---------------------------------------------------------------------- *)
ServiceQueries == {"Room.findAll", "Booking.findAll"}
NoFailure == "none"

(* BookingService.findOptimalRooms: null when the selector finds nothing, *)
(* and null from the catch block when a query throws                      *)
ServiceFindOptimalRoomsOutcome(failAt, avail, bks, numRooms, checkInDate, checkOutDate) ==
  IF failAt \in ServiceQueries THEN NoResult
  ELSE ServiceFindOptimalRooms(avail, bks, numRooms, checkInDate, checkOutDate)

(* BookingService.calculateTotalPrice: 0 from the catch block when        *)
(* Room.findAll throws                                                    *)
ServiceCalculateTotalPriceOutcome(failAt, roomIds, checkInDate, checkOutDate) ==
  IF failAt \in ServiceQueries THEN 0
  ELSE calculateTotalPrice(roomIds, checkInDate, checkOutDate)

ServiceFindOptimalRoomsCall(failAt, numRooms, checkInDate, checkOutDate) ==
  /\ algResult' = ServiceFindOptimalRoomsOutcome(failAt, isAvailable, bookings,
                                                 numRooms, checkInDate, checkOutDate)
  /\ UNCHANGED <<dbVars, procVars, algRooms, algCount, algTime, envVars>>

(* calculateTotalPrice(optimalRooms, checkInDate, checkOutDate) is given  *)
(* a result of findOptimalRooms and prices optimalRooms.rooms             *)
ServiceCalculateTotalPriceCall(failAt, checkInDate, checkOutDate) ==
  /\ algResult \notin {NoResult, NotRun}
  /\ priceResult' = ServiceCalculateTotalPriceOutcome(failAt,
                       Range(MapNumber(algResult.rooms)), checkInDate, checkOutDate)
  /\ UNCHANGED <<dbVars, procVars, algVars, today, priceReq>>

ServiceNumRooms == 1..MaxReq
ServiceStays == {d \in Days \X Days : d[1] < d[2]}

NextService ==
  \/ \E n \in NumRoomsInputs, ci \in Days, co \in Days : BookRooms(n, ci, co)
  \/ \E isOwner \in BOOLEAN, id \in 1..MaxBookings : CancelBooking(isOwner, id)
  \/ \E failAt \in ServiceQueries \cup {NoFailure}, n \in ServiceNumRooms,
        d \in ServiceStays : ServiceFindOptimalRoomsCall(failAt, n, d[1], d[2])
  \/ \E failAt \in {"Room.findAll", NoFailure}, d \in ServiceStays :
       ServiceCalculateTotalPriceCall(failAt, d[1], d[2])

SpecService == Init /\ [][NextService]_vars

(* C22: when a database query of BookingService.findOptimalRooms throws,  *)
(* its result is not the result of insufficient rooms (null); when the    *)
(* query of BookingService.calculateTotalPrice throws, its result is not  *)
(* a price.                                                               *)
C22_FailureIsNotBusinessOutcome ==
  [][/\ \A failAt \in ServiceQueries, n \in ServiceNumRooms, d \in ServiceStays :
          ServiceFindOptimalRoomsCall(failAt, n, d[1], d[2]) => algResult' # NoResult
     /\ \A d \in ServiceStays :
          ServiceCalculateTotalPriceCall("Room.findAll", d[1], d[2])
            => priceResult' \notin Nat]_vars

(* ---------------------------------------------------------------------- *)
(* Further properties of AlgorithmService.findOptimalRooms (SpecAlg)      *)
(* ---------------------------------------------------------------------- *)
(* C23: findOptimalRooms returns no result if and only if the number of   *)
(* free rooms over all floors is smaller than count; with at least count  *)
(* free rooms it returns a result of count rooms. (That the rooms of the  *)
(* result are distinct is the subject of C5.)                             *)
C23_NoResultIffTooFewRooms ==
  AlgRan =>
    /\ (algResult = NoResult) <=> (Cardinality(algRooms) < algCount)
    /\ Cardinality(algRooms) >= algCount
         => AlgHasResult /\ Len(algResult.rooms) = algCount

(* enough free rooms, but on no single floor: the result comes from the   *)
(* search across floors                                                   *)
C23_Witness ==
  /\ AlgRan
  /\ Cardinality(algRooms) >= algCount
  /\ AlgEligibleFloors = {}
  /\ algResult.strategy = "across_floors"

(* ---------------------------------------------------------------------- *)
(* Specification SpecExample: findOptimalRooms applied to the free rooms  *)
(* of the documented Example 2 (PDF_EXAMPLES of utils/constants.js,       *)
(* simulatePDFExample2 of the algorithm service) and to every subset of   *)
(* them, for the request sizes 1 and bookRooms = 2                        *)
(* ---------------------------------------------------------------------- *)
Example2Rooms == {101, 102, 201, 202, 203, 210, 301, 302}
Example2Floors == 3
Example2BookRooms == 2
Example2ByFloor == GroupByFloor(OrderByFloorPosition(algRooms), 1, Example2Floors)

InitExample ==
  /\ InitDb
  /\ InitEnv
  /\ InitProcIdle
  /\ algRooms \in SUBSET Example2Rooms
  /\ algCount \in 1..Example2BookRooms
  /\ algResult = NotRun
  /\ algTime = -1

ExampleFindOptimalRooms ==
  /\ algResult = NotRun
  /\ algResult' = findOptimalRooms(Example2ByFloor, algCount)
  /\ UNCHANGED <<dbVars, procVars, envVars, algRooms, algCount, algTime>>

NextExample == ExampleFindOptimalRooms

SpecExample == InitExample /\ [][NextExample]_vars

(* C24: with the free rooms of Example 2 ({101,102} on floor 1,           *)
(* {201,202,203,210} on floor 2, {301,302} on floor 3) a request for 2    *)
(* rooms selects rooms 201 and 202 with travel time 3.                    *)
C24_Example2Selects201And202 ==
  (AlgRan /\ algRooms = Example2Rooms /\ algCount = Example2BookRooms)
    => /\ Range(AlgResultNumbers) = {201, 202}
       /\ algResult.travelTime = 3

(* ---------------------------------------------------------------------- *)
(* Specification SpecInventory: the rooms table itself changes. The       *)
(* table starts empty (a fresh database) and is filled by seedRooms /     *)
(* createSampleRooms (controllers/roomController.js) and by the handlers  *)
(* of app.js that insert 20 sample rooms; bookRooms,                      *)
(* generateRandomOccupancy and resetAllBookings run on whatever table     *)
(* there is. DOMAIN isAvailable is the set of rows of the table.          *)
(* ---------------------------------------------------------------------- *)
(* faulty variant of SeedRoomNumbers: floor 10 is seeded with 10 rooms    *)
(* like the floors below it                                               *)
SeedRoomNumbers_FullTopFloor ==
  {floor * 100 + position : floor \in 1..9, position \in 1..10}
    \cup {1000 + position : position \in 1..10}

(* the room numbers of the list seedRooms hands to Room.bulkCreate: the   *)
(* loop over floors 1-9 with positions 1-10, then floor 10 with           *)
(* positions 1-7                                                          *)
SeedRoomNumbers ==
  {floor * 100 + position : floor \in 1..9, position \in 1..10}
    \cup {1000 + position : position \in 1..7}

(* sampleRooms of handleAutoFixRooms and handleQuickCreateRooms (app.js): *)
(* rooms 101-110 and 201-210                                              *)
SampleRoomNumbers == {floor * 100 + position : floor \in 1..2, position \in 1..10}

EmptyTable == [n \in {} |-> TRUE]

InitInventory ==
  /\ isAvailable = EmptyTable
  /\ bookings = <<>>
  /\ response = 0
  /\ InitEnv
  /\ InitProcIdle
  /\ InitAlgIdle

(* seedRooms, also createSampleRooms: Room.destroy({where: {}}) and       *)
(* Room.bulkCreate(roomsToCreate)                                         *)
SeedRoomsResult == [n \in SeedRoomNumbers |-> TRUE]

SeedRooms ==
  /\ isAvailable' = SeedRoomsResult
  /\ response' = 200
  /\ UNCHANGED <<bookings, procVars, algVars, envVars>>

(* handleAutoFixRooms: the 20 sample rooms are inserted when the table is *)
(* empty                                                                  *)
AutoFixRooms ==
  /\ isAvailable' = IF RoomCountOf(isAvailable) = 0
                    THEN [n \in SampleRoomNumbers |-> TRUE]
                    ELSE isAvailable
  /\ response' = 200
  /\ UNCHANGED <<bookings, procVars, algVars, envVars>>

(* handleQuickCreateRooms: INSERT ... ON CONFLICT (room_number) DO        *)
(* NOTHING of the 20 sample rooms                                         *)
QuickCreateRooms ==
  /\ isAvailable' = [n \in DOMAIN isAvailable \cup SampleRoomNumbers |->
                       IF n \in DOMAIN isAvailable THEN isAvailable[n] ELSE TRUE]
  /\ response' = 200
  /\ UNCHANGED <<bookings, procVars, algVars, envVars>>

(* generateRandomOccupancy: numToBook = floor(length * occupancyRate)     *)
(* rooms of a random shuffle become unavailable, all others available.    *)
(* The inputs are the rate (in tenths, from [0.3, 0.6)) and the shuffle,  *)
(* of which the ascending and the descending order are taken.             *)
OccupancyRates == {3, 5}
GenerateRandomOccupancy(rate, descending) ==
  /\ LET allRooms == DOMAIN isAvailable
         numToBook == (Cardinality(allRooms) * rate) \div 10
         before(n) == IF descending THEN {m \in allRooms : m > n}
                                    ELSE {m \in allRooms : m < n}
     IN isAvailable' = [n \in allRooms |-> Cardinality(before(n)) >= numToBook]
  /\ response' = 200
  /\ UNCHANGED <<bookings, procVars, algVars, envVars>>

(* resetAllBookings on a table of any size: the bookings are cancelled,   *)
(* every room is made available, and when Room.count() is not 97          *)
(* seedRooms replaces the table                                           *)
ResetAllBookingsSeeding ==
  /\ bookings' = CancelConfirmed(bookings)
  /\ isAvailable' = IF RoomCountOf(isAvailable) # 97
                    THEN SeedRoomsResult
                    ELSE [n \in DOMAIN isAvailable |-> TRUE]
  /\ response' = 200
  /\ UNCHANGED <<procVars, algVars, envVars>>

NextInventory ==
  \/ SeedRooms
  \/ AutoFixRooms
  \/ QuickCreateRooms
  \/ \E rate \in OccupancyRates, descending \in BOOLEAN :
       GenerateRandomOccupancy(rate, descending)
  \/ BookRooms(1, Today, Today + 1)
  \/ ResetAllBookingsSeeding

SpecInventory == InitInventory /\ [][NextInventory]_vars

RoomsOnFloor(avail, f) == {n \in DOMAIN avail : FloorOf(n) = f}

(* C25: after resetAllBookings no booking is confirmed, every room is     *)
(* available, and the rooms table holds exactly 97 rooms: 10 on each of   *)
(* the floors 1 to 9 and 7 on floor 10.                                   *)
C25_ResetRestoresInventory ==
  [][ResetAllBookingsSeeding =>
       /\ \A i \in 1..Len(bookings') : bookings'[i].status # "confirmed"
       /\ \A n \in DOMAIN isAvailable' : isAvailable'[n]
       /\ Cardinality(DOMAIN isAvailable') = 97
       /\ \A f \in 1..9 : Cardinality(RoomsOnFloor(isAvailable', f)) = 10
       /\ Cardinality(RoomsOnFloor(isAvailable', 10)) = 7]_vars

(* the state after a reset that cancelled every booking and found a       *)
(* table to re-seed or to free                                            *)
C25_Witness ==
  /\ Len(bookings) = MaxBookings
  /\ \A i \in 1..Len(bookings) : bookings[i].status = "cancelled"
  /\ Cardinality(DOMAIN isAvailable) = 97
  /\ \A n \in DOMAIN isAvailable : isAvailable[n]

(* ---------------------------------------------------------------------- *)
(* Further properties of the bookings table (Spec)                        *)
(* ---------------------------------------------------------------------- *)
(* the room rows of a booking's room numbers *)
BookingRoomRecs(b) == [k \in 1..Len(b.rooms) |-> RoomRec(b.rooms[k])]

(* C26: the travelTime stored on every booking that bookRooms created     *)
(* equals the travel cost (maxFloor - 1) * 2 + (maxPos - minPos) of the   *)
(* rooms of that booking.                                                 *)
C26_StoredTravelTimeIsTravelCost ==
  \A i \in 1..Len(bookings) :
    bookings[i].travelTime = calculateTravelTime(BookingRoomRecs(bookings[i]))

(* C27: the totalPrice stored on every booking that bookRooms created     *)
(* equals what BookingService.calculateTotalPrice gives for the rooms     *)
(* and dates of that booking (weekend factor, and the 1.30 peak-season    *)
(* factor for a check-in from 20 December to 5 January).                  *)
C27_StoredPriceIsRuleEnginePrice ==
  \A i \in 1..Len(bookings) :
    bookings[i].totalPrice = calculateTotalPrice(Range(bookings[i].rooms),
                                                 bookings[i].checkInDate,
                                                 bookings[i].checkOutDate)

C29_CancelledBookingStaysCancelled ==
  [][\A id \in 1..Len(bookings) :
       (bookings[id].status = "cancelled" /\ CancelBookingUnchecked(id))
         => /\ response' = 400
            /\ bookings' = bookings
            /\ isAvailable' = isAvailable]_vars

(* ---------------------------------------------------------------------- *)
(* Further properties of AlgorithmService.calculateTravelTime (SpecAlg)   *)
(* ---------------------------------------------------------------------- *)
(* the free rooms with those of their highest floor moved up to floor g,  *)
(* positions kept                                                         *)
AlgTopFloor == SetMax({FloorOf(n) : n \in algRooms})
AlgLifted(g) ==
  {IF FloorOf(n) = AlgTopFloor THEN RoomNumber(g, PositionOf(n)) ELSE n : n \in algRooms}
AlgRecs(S) == OrderByFloorPosition(S)

====
